---------------------------- MODULE Spec2Model ----------------------------
(***************************************************************************)
(* Model of the DoubleClick price codec                                    *)
(* (src/doubleclick/doubleclick_pricer.go): NewDoubleClickPricer, Encrypt  *)
(* and Decrypt.                                                            *)
(*                                                                         *)
(* Representation.                                                         *)
(*   - a byte is a number in 0..255, a byte string a sequence of bytes;    *)
(*   - a Go string that is read character by character (a key source, a    *)
(*     token) is the sequence of its bytes;                                *)
(*   - a uint64 is kept as its 8 big-endian bytes (TLC's integers are 32   *)
(*     bits wide), so binary.BigEndian.Uint64 / PutUint64 move digits and  *)
(*     a returned price is the exact quotient [num, den];                  *)
(*   - md5.Sum and the keyed hash are library primitives: they are         *)
(*     modelled by deterministic mixing functions in which every digest    *)
(*     byte changes when one message byte changes (the collision           *)
(*     resistance the construction relies on).                             *)
(***************************************************************************)
EXTENDS Integers, Sequences, FiniteSets, TLC

\* ------------------------------------------------------------------ sizes

\* var iv [16]byte
IVLen == 16
\* var encoded [8]byte
PriceLen == 8
\* var signature [4]byte
SigLen == 4
\* decoded[24:28]: the envelope iv || enc_price || signature
EnvelopeLen == 28
\* "from specs, scaleFactor is 1,000,000" (micros)
DefaultScaleFactor == 1000000

\* ------------------------------------------------------------ byte strings

RECURSIVE XorBits(_, _, _)
XorBits(a, b, n) ==
    IF n = 0 THEN 0
    ELSE (((a % 2) + (b % 2)) % 2) + 2 * XorBits(a \div 2, b \div 2, n - 1)

\* the exclusive or of two half bytes, tabulated
XorNibble == [a \in 0..15 |-> [b \in 0..15 |-> XorBits(a, b, 4)]]

\* Go's ^ on two bytes
ByteXor(a, b) ==
    16 * XorNibble[a \div 16][b \div 16] + XorNibble[a % 16][b % 16]

RECURSIVE Pow2(_)
Pow2(k) == IF k = 0 THEN 1 ELSE 2 * Pow2(k - 1)

Zeros(n) == [i \in 1..n |-> 0]

\* s[lo:hi] of Go: bytes lo .. hi-1 (0-based), as a sequence
Slice(s, lo, hi) == [i \in 1..(hi - lo) |-> s[lo + i]]

\* F(v), with v evaluated once: TLC evaluates a LET definition and an
\* operator argument again at each use
With(v, F(_)) == CHOOSE y \in { F(z) : z \in { v } } : TRUE

IsZero(bytes) == \A i \in 1..Len(bytes) : bytes[i] = 0

\* ------------------------------------------------------------------ hashes

\* the sum of msg[j] * (2 * j + w) over the bytes of msg from j on
RECURSIVE WeightedSum(_, _, _)
WeightedSum(msg, w, j) ==
    IF j > Len(msg) THEN 0
    ELSE msg[j] * (2 * j + w) + WeightedSum(msg, w, j + 1)

\* In both digests byte i mixes message byte j with the odd weight
\* 2 * (i + j) + 1: a change of one message byte changes every digest byte.

\* md5.Sum(msg): a 16-byte digest of msg
MD5Sum(msg) ==
    With(<< WeightedSum(msg, 0, 1), WeightedSum(msg, 1, 1), Len(msg) >>,
         LAMBDA s :
            [i \in 1..IVLen |-> (2 * i * s[1] + s[2] + 7 * i + s[3]) % 256])

\* the 16-byte digest of a keyed-hash context holding key `key` after
\* the bytes `written` were written to it
HmacDigest(key, written) ==
    With(<< WeightedSum(key, 0, 1), WeightedSum(key, 3, 1),
            WeightedSum(written, 0, 1), WeightedSum(written, 1, 1),
            5 * Len(key) + Len(written) >>,
         LAMBDA s :
            [i \in 1..IVLen |->
                (3 * (2 * i * s[1] + s[2]) + 2 * i * s[3] + s[4]
                   + 13 * i + s[5]) % 256])

\* ------------------------------------------------------------- characters

\* encoding/base64 URLEncoding: the RFC 4648 URL-safe alphabet,
\* "A".."Z", "a".."z", "0".."9", "-", "_", as the bytes of Go's string
Alphabet ==
    [i \in 1..64 |->
        CASE i <= 26 -> 64 + i
          [] i <= 52 -> 70 + i
          [] i <= 62 -> i - 5
          [] i = 63 -> 45
          [] OTHER -> 95]

\* base64.StdPadding, '='
PadChar == 61

\* the line breaks base64's decoder skips, '\n' and '\r'
NewLines == {10, 13}

\* Encoding.decodeMap: the 6-bit value of each alphabet character, 255 for
\* every other byte
DecodeMap ==
    [c \in 0..255 |->
        IF \E i \in 1..64 : Alphabet[i] = c
        THEN (CHOOSE i \in 1..64 : Alphabet[i] = c) - 1 ELSE 255]

InAlphabet(c) == DecodeMap[c] # 255

Sextet(c) == DecodeMap[c]

\* encoding/hex fromHexChar: the value of a hexadecimal digit, or -1
HexVal(c) ==
    CASE c >= 48 /\ c <= 57 -> c - 48
      [] c >= 97 /\ c <= 102 -> c - 97 + 10
      [] c >= 65 /\ c <= 70 -> c - 65 + 10
      [] OTHER -> 0 - 1

\* hex.DecodeString(s): fails on an odd length or a character that is no digit
HexDecodeString(s) ==
    IF Len(s) % 2 # 0 \/ \E i \in 1..Len(s) : HexVal(s[i]) < 0
    THEN [err |-> "hex: invalid input", bytes |-> << >>]
    ELSE [err |-> "nil",
          bytes |-> [i \in 1..(Len(s) \div 2) |->
                        16 * HexVal(s[2 * i - 1]) + HexVal(s[2 * i])]]

\* ------------------------------------------------------------------ base64

\* the characters of up to three bytes, padded to a quantum of four
EncodeQuantum(q) ==
    CASE Len(q) = 1 ->
            << Alphabet[(q[1] \div 4) + 1], Alphabet[((q[1] % 4) * 16) + 1],
               PadChar, PadChar >>
      [] Len(q) = 2 ->
            << Alphabet[(q[1] \div 4) + 1],
               Alphabet[((q[1] % 4) * 16 + (q[2] \div 16)) + 1],
               Alphabet[((q[2] % 16) * 4) + 1], PadChar >>
      [] OTHER ->
            << Alphabet[(q[1] \div 4) + 1],
               Alphabet[((q[1] % 4) * 16 + (q[2] \div 16)) + 1],
               Alphabet[((q[2] % 16) * 4 + (q[3] \div 64)) + 1],
               Alphabet[(q[3] % 64) + 1] >>

RECURSIVE EncodeFrom(_, _)
EncodeFrom(src, i) ==
    IF i > Len(src) THEN << >>
    ELSE IF i + 2 <= Len(src)
    THEN EncodeQuantum(<< src[i], src[i + 1], src[i + 2] >>) \o EncodeFrom(src, i + 3)
    ELSE EncodeQuantum(Slice(src, i - 1, Len(src)))

\* base64.URLEncoding.EncodeToString(src)
EncodeToString(src) == With(src, LAMBDA b : EncodeFrom(b, 1))

CorruptInput == "illegal base64 data"

\* byte b (0-based) of the decoding of the characters t: quantum b \div 3
DecodedByte(t, b) ==
    LET g == 4 * (b \div 3)
        k == b % 3
    IN  CASE k = 0 -> Sextet(t[g + 1]) * 4 + (Sextet(t[g + 2]) \div 16)
          [] k = 1 -> (Sextet(t[g + 2]) % 16) * 16 + (Sextet(t[g + 3]) \div 4)
          [] OTHER -> (Sextet(t[g + 3]) % 4) * 64 + Sextet(t[g + 4])

\* the index of the first character of t outside the alphabet, Len(t) + 1
\* when there is none
RECURSIVE FirstStop(_, _)
FirstStop(t, i) ==
    IF i > Len(t) \/ ~InAlphabet(t[i]) THEN i ELSE FirstStop(t, i + 1)

\* the decoding of t, which holds no line break, whose first character
\* outside the alphabet is t[j]
DecodeUpTo(t, j) ==
    LET q == (j - 1) % 4
        whole == 3 * ((j - 1) \div 4)
        padded == /\ j <= Len(t)
                  /\ t[j] = PadChar
                  /\ \/ q = 3 /\ Len(t) = j
                     \/ q = 2 /\ Len(t) = j + 1 /\ t[j + 1] = PadChar
    IN  [err |-> IF padded \/ (j > Len(t) /\ q = 0) THEN "nil" ELSE CorruptInput,
         bytes |-> [b \in 1..(IF padded THEN whole + q - 1 ELSE whole) |->
                       DecodedByte(t, b - 1)]]

\* Encoding.Decode: line breaks are skipped wherever they stand; the first
\* character outside the alphabet must be padding that completes the last
\* quantum (xx== or xxx=) and ends the input; without padding the input must
\* end on a quantum.  Surplus bits are dropped (URLEncoding is not strict).
\* On an error, the bytes of the quanta before it.
Decode(s) ==
    With(SelectSeq(s, LAMBDA c : c \notin NewLines),
         LAMBDA t : With(FirstStop(t, 1), LAMBDA j : DecodeUpTo(t, j)))

\* base64.URLEncoding.DecodeString(s): dbuf := make([]byte, DecodedLen(len(s)));
\* n, err := Decode(dbuf, s); return dbuf[:n], err.  `cap` is the capacity of
\* the returned slice, which Go's slice expressions are checked against;
\* `buf` is the whole zero-filled buffer.
DecodeString(s) ==
    With(<< Decode(s), (Len(s) \div 4) * 3 >>,
         LAMBDA r :
            [err |-> r[1].err, bytes |-> r[1].bytes, cap |-> r[2],
             buf |-> r[1].bytes \o Zeros(r[2] - Len(r[1].bytes))])

\* helpers.AddBase64Padding: re-adds the '=' a producer stripped
AddBase64Padding(s) ==
    CASE Len(s) % 4 = 0 -> s
      [] Len(s) % 4 = 1 -> s \o << PadChar, PadChar, PadChar >>
      [] Len(s) % 4 = 2 -> s \o << PadChar, PadChar >>
      [] OTHER -> s \o << PadChar >>

\* ------------------------------------------------------------------ prices

\* A float64 price is the exact value (-1)^neg * (num / den) * 256^exp; the
\* prices with exp > 0 are whole numbers.  The prices: 0; 2.50 (2,500,000
\* micros, and 3 under the scale factor 1); 255 * 2^56 (a uint64 under the
\* scale factor 1, beyond 2^64 under 1,000,000); -2.50.
ZeroPrice == [neg |-> FALSE, num |-> 0, den |-> 1, exp |-> 0]

TwoFifty == [neg |-> FALSE, num |-> 5, den |-> 2, exp |-> 0]

Prices ==
    { ZeroPrice,
      TwoFifty,
      [neg |-> FALSE, num |-> 255, den |-> 1, exp |-> 7],
      [neg |-> TRUE,  num |-> 5,   den |-> 2, exp |-> 0] }

ScaleFactors == {1, DefaultScaleFactor}

\* round(price * scaleFactor) without the 256^exp factor (half rounds up)
RoundScaled(price, scaleFactor) ==
    (2 * price.num * scaleFactor + price.den) \div (2 * price.den)

\* the base-256 digit k of r (k = 0: the lowest)
RECURSIVE Digit(_, _)
Digit(r, k) == IF k = 0 THEN r % 256 ELSE Digit(r \div 256, k - 1)

\* whether round(price * scaleFactor) is a uint64: not negative, and no
\* digit at or above 256^8 (r stays below 2^31: digits 0..3)
InRange(price, scaleFactor) ==
    LET r == RoundScaled(price, scaleFactor)
    IN  /\ (~price.neg \/ r = 0)
        /\ \A k \in 0..3 : Digit(r, k) # 0 => k + price.exp < PriceLen

\* binary.BigEndian.PutUint64 of round(price * scaleFactor)
Micros(price, scaleFactor) ==
    LET r == RoundScaled(price, scaleFactor)
    IN  [i \in 1..PriceLen |->
            IF PriceLen - i >= price.exp
            THEN Digit(r, PriceLen - i - price.exp) ELSE 0]

\* Go's uint64(f) for an f that is no uint64 is implementation-dependent:
\* saturation (0 or 2^64-1) or the 2^63 pattern
UnrepresentableMicros ==
    { Zeros(PriceLen),
      [i \in 1..PriceLen |-> 255],
      [i \in 1..PriceLen |-> IF i = 1 THEN 128 ELSE 0] }

\* helpers.ApplyScaleFactor(price, scaleFactor, isDebugMode) [8]byte: the
\* arrays it may return (one, for a price in range).  Its single result has
\* no error beside it.
ApplyScaleFactor(price, scaleFactor) ==
    IF InRange(price, scaleFactor) THEN { Micros(price, scaleFactor) }
    ELSE UnrepresentableMicros

\* float64(binary.BigEndian.Uint64(num)) / den
Quotient(num, den) ==
    IF IsZero(num) THEN [num |-> Zeros(PriceLen), den |-> 1]
    ELSE [num |-> num, den |-> den]

\* var errPrice float64
errPrice == Quotient(Zeros(PriceLen), 1)

\* ------------------------------------------------------- keyed-hash context

\* hash.Hash of crypto/hmac: the key it was made with and the bytes written
\* since the last Reset
HashReset(h) == [h EXCEPT !.written = << >>]

HashWrite(h, buf) == [h EXCEPT !.written = @ \o buf]

\* h.Sum(nil): the digest of what was written; the context is left as it is
HashSum(h) == HmacDigest(h.key, h.written)

\* write buf and sum, without the reset
HmacSumNoReset(h, buf) ==
    With(HashWrite(h, buf), LAMBDA h2 : [h |-> h2, sum |-> HashSum(h2)])

\* helpers.HmacSum(hmac, buf): reset, write buf, sum
HmacSum(h, buf) ==
    With(HashWrite(HashReset(h), buf),
         LAMBDA h2 : [h |-> h2, sum |-> HashSum(h2)])

\* helpers.KeyDecodingMode
KeyDecodingModes == {"hex", "base64web"}

\* helpers.CreateHmac(key, isBase64Keys, keyDecodingMode): the key source
\* decoded per the mode, wrapped as a keyed-hash context
CreateHmac(key, isBase64Keys, keyDecodingMode) ==
    With(IF keyDecodingMode = "hex" THEN HexDecodeString(key)
         ELSE DecodeString(AddBase64Padding(key)),
         LAMBDA d :
            IF d.err # "nil" THEN [err |-> d.err, hash |-> << >>]
            ELSE [err |-> "nil", hash |-> [key |-> d.bytes, written |-> << >>]])

\* ------------------------------------------------------------ construction

\* the nil *DoubleClickPricer
NoPricer == [nil |-> TRUE]

\* NewDoubleClickPricer: in debug mode the two key sources are also
\* hex-decoded for the log, and a failure of that decoding is returned
NewDoubleClickPricer(encryptionKey, integrityKey, isBase64Keys, keyDecodingMode, scaleFactor, isDebugMode) ==
    LET encryptingFun == CreateHmac(encryptionKey, isBase64Keys, keyDecodingMode)
        integrityFun == CreateHmac(integrityKey, isBase64Keys, keyDecodingMode)
        encryptionKeyHexa == HexDecodeString(encryptionKey)
        integrityKeyHexa == HexDecodeString(integrityKey)
    IN  CASE encryptingFun.err # "nil" -> [dc |-> NoPricer, err |-> encryptingFun.err]
          [] integrityFun.err # "nil" -> [dc |-> NoPricer, err |-> integrityFun.err]
          [] isDebugMode /\ encryptionKeyHexa.err # "nil" ->
                [dc |-> NoPricer, err |-> encryptionKeyHexa.err]
          [] isDebugMode /\ integrityKeyHexa.err # "nil" ->
                [dc |-> NoPricer, err |-> integrityKeyHexa.err]
          [] OTHER ->
                [dc |-> [nil |-> FALSE,
                         encryptionKeyRaw |-> encryptionKey,
                         integrityKeyRaw |-> integrityKey,
                         encryptionKey |-> encryptingFun.hash,
                         integrityKey |-> integrityFun.hash,
                         keyDecodingMode |-> keyDecodingMode,
                         scaleFactor |-> scaleFactor,
                         isDebugMode |-> isDebugMode],
                 err |-> "nil"]

\* ----------------------------------------------------------------- Encrypt

\* for i := range data { encoded[i] = pad[i] ^ data[i] }
XorBytes(pad, data) == [i \in 1..Len(data) |-> ByteXor(pad[i], data[i])]

\* HmacSum(dc.encryptionKey, iv[:])[:8]
PadOf(sum) == Slice(sum, 0, PriceLen)

\* the signature computed over iv || data
SignatureInputIVFirst(data, iv) == iv \o data

\* append(data[:], iv[:]...): what the signature is computed over
SignatureInput(data, iv) == data \o iv

\* HmacSum(dc.integrityKey, ...)[:4]
SignatureOf(sum) == Slice(sum, 0, SigLen)

\* the envelope packed as iv || signature || enc_price
FinalMessageSignatureFirst(iv, encoded, signature) ==
    EncodeToString(iv \o signature \o encoded)

\* base64.URLEncoding.EncodeToString(append(append(iv[:], encoded[:]...), signature[:]...))
FinalMessage(iv, encoded, signature) ==
    EncodeToString(iv \o encoded \o signature)

\* Encrypt writing the iv into the encryption context without resetting it
EncryptDataNoReset(dc, seed, data, isDebugMode) ==
    With(MD5Sum(seed), LAMBDA iv :
    With(HmacSumNoReset(dc.encryptionKey, iv), LAMBDA padSum :
    With(XorBytes(PadOf(padSum.sum), data), LAMBDA encoded :
    With(HmacSum(dc.integrityKey, SignatureInput(data, iv)), LAMBDA sigSum :
        [dc |-> [dc EXCEPT !.encryptionKey = padSum.h,
                           !.integrityKey = sigSum.h],
         token |-> FinalMessage(iv, encoded, SignatureOf(sigSum.sum)),
         err |-> "nil"]))))

\* Encrypt from the scaled price `data` on: the token, the error (Encrypt's
\* err is declared and never assigned) and the pricer with its two contexts
\* as the call leaves them
EncryptData(dc, seed, data, isDebugMode) ==
    With(MD5Sum(seed), LAMBDA iv :
    With(HmacSum(dc.encryptionKey, iv), LAMBDA padSum :
    With(XorBytes(PadOf(padSum.sum), data), LAMBDA encoded :
    With(HmacSum(dc.integrityKey, SignatureInput(data, iv)), LAMBDA sigSum :
        [dc |-> [dc EXCEPT !.encryptionKey = padSum.h,
                           !.integrityKey = sigSum.h],
         token |-> FinalMessage(iv, encoded, SignatureOf(sigSum.sum)),
         err |-> "nil"]))))

\* ----------------------------------------------------------------- Decrypt

FailedToDecrypt == "Failed to decrypt"

\* the comparison stopping one byte early
SignatureMatchesButLast(sig, signature) ==
    \A i \in 1..(Len(sig) - 1) : sig[i] = signature[i]

\* for i := range sig { if sig[i] != signature[i] { return errPrice, ... } }
SignatureMatches(sig, signature) ==
    \A i \in 1..Len(sig) : sig[i] = signature[i]

\* the signature taken from the end of decoded, decoded[len-4:]
ElementsFromEnd(decoded) ==
    IF decoded.cap < EnvelopeLen
    THEN [panic |-> TRUE, iv |-> << >>, p |-> << >>, signature |-> << >>]
    ELSE [panic |-> FALSE,
          iv |-> Slice(decoded.buf, 0, IVLen),
          p |-> Slice(decoded.buf, IVLen, IVLen + PriceLen),
          signature |-> Slice(decoded.bytes, Len(decoded.bytes) - SigLen,
                              Len(decoded.bytes))]

\* copy(iv[:], decoded[0:16]); copy(p[:], decoded[16:24]);
\* copy(signature[:], decoded[24:28]): each slice expression panics when its
\* upper bound exceeds the capacity of decoded, and reads the zero bytes of
\* the buffer between its length and its capacity
Elements(decoded) ==
    IF decoded.cap < EnvelopeLen
    THEN [panic |-> TRUE, iv |-> << >>, p |-> << >>, signature |-> << >>]
    ELSE [panic |-> FALSE,
          iv |-> Slice(decoded.buf, 0, IVLen),
          p |-> Slice(decoded.buf, IVLen, IVLen + PriceLen),
          signature |-> Slice(decoded.buf, IVLen + PriceLen, EnvelopeLen)]

SliceOutOfRange == "panic: slice bounds out of range"

\* Decrypt from the elements on: the pad, the price, the signature check
DecryptElements(dc, el) ==
    With(HmacSum(dc.encryptionKey, el.iv), LAMBDA padSum :
    With(XorBytes(PadOf(padSum.sum), el.p), LAMBDA priceMicro :
    With(HmacSum(dc.integrityKey, SignatureInput(priceMicro, el.iv)), LAMBDA sigSum :
        [dc |-> [dc EXCEPT !.encryptionKey = padSum.h,
                           !.integrityKey = sigSum.h],
         kind |-> "return",
         price |-> IF SignatureMatches(SignatureOf(sigSum.sum), el.signature)
                   THEN Quotient(priceMicro, dc.scaleFactor) ELSE errPrice,
         err |-> IF SignatureMatches(SignatureOf(sigSum.sum), el.signature)
                 THEN "nil" ELSE FailedToDecrypt,
         hashed |-> TRUE])))

\* Decrypt from the decoded token on
DecryptDecoded(dc, decoded) ==
    IF decoded.err # "nil"
    THEN [dc |-> dc, kind |-> "return", price |-> errPrice,
          err |-> decoded.err, hashed |-> FALSE]
    ELSE With(Elements(decoded), LAMBDA el :
            IF el.panic
            THEN [dc |-> dc, kind |-> "panic", price |-> errPrice,
                  err |-> SliceOutOfRange, hashed |-> FALSE]
            ELSE DecryptElements(dc, el))

\* Decrypt(encryptedPrice, isDebugMode): kind "return" with (price, err), or
\* kind "panic"; hashed says whether the call reached the pad computation
Decrypt(dc, encryptedPrice, isDebugMode) ==
    With(DecodeString(AddBase64Padding(encryptedPrice)),
         LAMBDA decoded : DecryptDecoded(dc, decoded))

\* ------------------------------------------------------------------ inputs

\* the key sources "0a1f" and "beef" (hexadecimal digits, which are base64
\* characters too), "c2Vj" (base64 only) and "0a!" (neither)
Key0a1f == << 48, 97, 49, 102 >>
KeyBeef == << 98, 101, 101, 102 >>
KeyC2Vj == << 99, 50, 86, 106 >>
KeyBad == << 48, 97, 33 >>

KeySources == { Key0a1f, KeyBeef, KeyC2Vj, KeyBad }

\* the arguments of NewDoubleClickPricer; isBase64Keys agrees with the mode
NewArgs ==
    [encryptionKey : KeySources, integrityKey : KeySources,
     keyDecodingMode : KeyDecodingModes, scaleFactor : ScaleFactors,
     isDebugMode : BOOLEAN]

New(a) ==
    NewDoubleClickPricer(a.encryptionKey, a.integrityKey,
                         a.keyDecodingMode = "base64web", a.keyDecodingMode,
                         a.scaleFactor, a.isDebugMode)

\* the constructions whose pricers the calls are explored on
PricerArgs ==
    { [encryptionKey |-> Key0a1f, integrityKey |-> KeyBeef,
       keyDecodingMode |-> "hex", scaleFactor |-> sf, isDebugMode |-> TRUE] :
         sf \in ScaleFactors }
    \cup { [encryptionKey |-> KeyC2Vj, integrityKey |-> Key0a1f,
            keyDecodingMode |-> "base64web", scaleFactor |-> DefaultScaleFactor,
            isDebugMode |-> FALSE] }

\* the UTF-8 bytes of the seeds "abc123" and "x"
Seeds == { << 97, 98, 99, 49, 50, 51 >>, << 120 >> }

\* how many Encrypt calls a behaviour makes
MaxEncrypts == 2
\* how many bytes are appended to an envelope
MaxExtra == 2

SameToken == [how |-> "same", a |-> 0, b |-> 0]
StrippedToken == [how |-> "strip", a |-> 0, b |-> 0]

\* the tokens submitted again after a first Decrypt of an issued token
ReplayInputs == { SameToken, StrippedToken }

\* the tokens that need no issued token: the empty string and a token holding
\* a character outside the alphabet
ForgedInputs ==
    { [how |-> "truncate", a |-> 0, b |-> 0], [how |-> "garbage", a |-> 0, b |-> 0] }

\* the tokens a caller derives from an issued token: the token itself, with
\* its padding stripped, with bit b of envelope byte a (0-based) flipped in
\* the masked price or the tag, with a extra bytes after the envelope (of a
\* valid token, b = 0, or of one whose tag byte b was altered), cut to a
\* characters, and cut to 27 bytes and filled up with line breaks
DerivedInputs ==
    ReplayInputs \cup ForgedInputs
    \cup { [how |-> "flip", a |-> a, b |-> b] :
              a \in IVLen..(EnvelopeLen - 1), b \in 0..7 }
    \cup { [how |-> "extend", a |-> a, b |-> b] :
              a \in 1..MaxExtra, b \in {0} \cup ((IVLen + PriceLen)..(EnvelopeLen - 1)) }
    \cup { [how |-> "truncate", a |-> a, b |-> 0] : a \in {20, 36} }
    \cup { [how |-> "newline", a |-> 0, b |-> 0] }

\* bit b of byte a (0-based) of the byte string flipped
FlipBit(bytes, a, b) ==
    [bytes EXCEPT ![a + 1] = ByteXor(@, Pow2(b))]

ExtraBytes(n) == [i \in 1..n |-> (40 * i + 3) % 256]

StripPadding(token) == SelectSeq(token, LAMBDA c : c # PadChar)

\* the token submitted to Decrypt for input `in`, from the issued `token`
DeriveToken(token, in) ==
    CASE in.how = "same" -> token
      [] in.how = "strip" -> StripPadding(token)
      [] in.how = "flip" ->
            With(DecodeString(token).bytes,
                 LAMBDA env : EncodeToString(FlipBit(env, in.a, in.b)))
      [] in.how = "extend" ->
            With(DecodeString(token).bytes,
                 LAMBDA env :
                    EncodeToString((IF in.b = 0 THEN env ELSE FlipBit(env, in.b, 0))
                                   \o ExtraBytes(in.a)))
      [] in.how = "truncate" -> SubSeq(token, 1, in.a)
      [] in.how = "newline" -> SubSeq(token, 1, 36) \o << 10, 10, 10, 10 >>
      [] OTHER -> << 43, 65, 65, 65 >>

\* ------------------------------------------------------------------- state

VARIABLES
    dc,       \* the *DoubleClickPricer, its two hash contexts included
    ctor,     \* the last NewDoubleClickPricer call: arguments and error
    ret,      \* the last Encrypt or Decrypt call: arguments and results; for
              \* an Encrypt, whether it repeats the Encrypt before it
    lastEnc,  \* the last token Encrypt issued, and what it was issued for
    nEnc,     \* the Encrypt calls made
    calls     \* the calls in progress when callers run concurrently

vars == << dc, ctor, ret, lastEnc, nEnc, calls >>

NoCtor ==
    [called |-> FALSE,
     args |-> [encryptionKey |-> << >>, integrityKey |-> << >>,
               keyDecodingMode |-> "hex", scaleFactor |-> 0,
               isDebugMode |-> FALSE],
     err |-> "nil"]

NoRet ==
    [op |-> "none", seed |-> << >>, price |-> ZeroPrice, data |-> << >>,
     token |-> << >>, in |-> SameToken, encryptedPrice |-> << >>,
     kind |-> "return", outPrice |-> errPrice, err |-> "nil", hashed |-> FALSE,
     repeats |-> FALSE, afterDecrypt |-> FALSE, prevToken |-> << >>]

NoToken ==
    [issued |-> FALSE, submitted |-> FALSE, seed |-> << >>, price |-> ZeroPrice,
     data |-> << >>, token |-> << >>]

IdleCall ==
    [pc |-> "idle", op |-> "none", seed |-> << >>, data |-> << >>,
     encryptedPrice |-> << >>, iv |-> << >>, p |-> << >>, signature |-> << >>,
     x |-> << >>, token |-> << >>, kind |-> "return", outPrice |-> errPrice,
     err |-> "nil"]

Callers == {1, 2}

\* before construction
InitNew ==
    /\ dc = NoPricer
    /\ ctor = NoCtor
    /\ ret = NoRet
    /\ lastEnc = NoToken
    /\ nEnc = 0
    /\ calls = [c \in Callers |-> IdleCall]

\* after a construction that returned a pricer
Init ==
    /\ \E a \in PricerArgs :
          /\ ctor = [called |-> TRUE, args |-> a, err |-> New(a).err]
          /\ dc = New(a).dc
    /\ ret = NoRet
    /\ lastEnc = NoToken
    /\ nEnc = 0
    /\ calls = [c \in Callers |-> IdleCall]

\* ------------------------------------------------------------- construction

\* NewDoubleClickPricer(...), called once
Construct(a) ==
    /\ ~ctor.called
    /\ \E r \in { New(a) } :
          /\ dc' = r.dc
          /\ ctor' = [called |-> TRUE, args |-> a, err |-> r.err]
    /\ UNCHANGED << ret, lastEnc, nEnc, calls >>

NextNew == \E a \in NewArgs : Construct(a)

SpecNew == InitNew /\ [][NextNew]_vars

\* ----------------------------------------------------- sequential actions

\* dc.Encrypt(seed, price, isDebugMode), run to its return; the caller
\* passes the debug flag it constructed the pricer with
EncryptCall(seed, price) ==
    /\ ~dc.nil
    /\ nEnc < MaxEncrypts
    /\ \E data \in ApplyScaleFactor(price, dc.scaleFactor) :
          \E r \in { EncryptData(dc, seed, data, dc.isDebugMode) } :
              /\ dc' = r.dc
              /\ ret' = [NoRet EXCEPT !.op = "Encrypt", !.seed = seed,
                            !.price = price, !.data = data,
                            !.token = r.token, !.err = r.err,
                            !.repeats = /\ lastEnc.issued
                                        /\ lastEnc.seed = seed
                                        /\ lastEnc.price = price
                                        /\ lastEnc.data = data,
                            !.afterDecrypt = lastEnc.submitted,
                            !.prevToken = lastEnc.token]
              /\ lastEnc' = [issued |-> TRUE, submitted |-> FALSE, seed |-> seed,
                             price |-> price, data |-> data, token |-> r.token]
    /\ nEnc' = nEnc + 1
    /\ UNCHANGED << ctor, calls >>

\* dc.Decrypt(encryptedPrice, isDebugMode), run to its return or its panic,
\* on a token derived from the last one issued
DecryptCall(in) ==
    /\ ~dc.nil
    /\ \/ in \in ForgedInputs
       \/ lastEnc.issued /\ ~lastEnc.submitted
       \/ lastEnc.issued /\ in \in ReplayInputs
    /\ \E encryptedPrice \in { DeriveToken(lastEnc.token, in) } :
       \E r \in { Decrypt(dc, encryptedPrice, dc.isDebugMode) } :
           /\ dc' = r.dc
           /\ ret' = [NoRet EXCEPT !.op = "Decrypt", !.in = in,
                         !.encryptedPrice = encryptedPrice, !.kind = r.kind,
                         !.outPrice = r.price, !.err = r.err,
                         !.hashed = r.hashed]
    /\ lastEnc' = [lastEnc EXCEPT !.submitted = lastEnc.issued]
    /\ UNCHANGED << ctor, nEnc, calls >>

Next ==
    \/ \E seed \in Seeds, price \in Prices : EncryptCall(seed, price)
    \/ \E in \in DerivedInputs : DecryptCall(in)

Spec == Init /\ [][Next]_vars

\* ----------------------------------------------------- concurrent actions

\* Two goroutines call Encrypt and Decrypt on one pricer.  A call is a
\* sequence of steps, and each of its two HmacSum calls is three steps on
\* the pricer's hash context: Reset, Write, Sum.

\* the pricer as constructed, its contexts untouched
Fresh == New(ctor.args).dc

\* the construction whose pricer the concurrent callers share
ConcArgs ==
    [encryptionKey |-> Key0a1f, integrityKey |-> KeyBeef,
     keyDecodingMode |-> "hex", scaleFactor |-> DefaultScaleFactor,
     isDebugMode |-> TRUE]

\* the prices the concurrent callers encrypt
ConcPrices == { TwoFifty }

\* the tokens the concurrent callers decrypt: the token of 2.50 under the
\* seed "x", and the empty string
ConcTokens ==
    { DeriveToken(EncryptData(Fresh, << 120 >>,
                              Micros(TwoFifty, Fresh.scaleFactor), FALSE).token,
                  in) :
        in \in { SameToken, [how |-> "truncate", a |-> 0, b |-> 0] } }

\* after the construction of the shared pricer
InitConc ==
    /\ ctor = [called |-> TRUE, args |-> ConcArgs, err |-> New(ConcArgs).err]
    /\ dc = New(ConcArgs).dc
    /\ ret = NoRet
    /\ lastEnc = NoToken
    /\ nEnc = 0
    /\ calls = [c \in Callers |-> IdleCall]

\* the hash context a call at `pc` works on
ContextAt(pc) ==
    IF pc \in {"padReset", "padWrite", "padSum"}
    THEN "encryptionKey" ELSE "integrityKey"

\* Encrypt up to its first HmacSum: the scaled price and the iv
StartEncrypt(c, seed, price) ==
    /\ calls[c].pc = "idle"
    /\ \E data \in ApplyScaleFactor(price, dc.scaleFactor) :
          calls' = [calls EXCEPT ![c] =
                      [IdleCall EXCEPT !.pc = "padReset", !.op = "Encrypt",
                          !.seed = seed, !.data = data, !.iv = MD5Sum(seed)]]
    /\ UNCHANGED << dc, ctor, ret, lastEnc, nEnc >>

\* Decrypt up to its first HmacSum: the token decoded and cut into iv, p and
\* signature, or the return with the decoding error, or the panic
StartDecrypt(c, encryptedPrice) ==
    /\ calls[c].pc = "idle"
    /\ \E decoded \in { DecodeString(AddBase64Padding(encryptedPrice)) } :
       \E el \in { IF decoded.err = "nil" THEN Elements(decoded)
                    ELSE [panic |-> FALSE, iv |-> << >>, p |-> << >>,
                          signature |-> << >>] } :
          calls' = [calls EXCEPT ![c] =
                      [IdleCall EXCEPT
                          !.pc = IF decoded.err # "nil" \/ el.panic
                                 THEN "done" ELSE "padReset",
                          !.op = "Decrypt",
                          !.encryptedPrice = encryptedPrice,
                          !.iv = el.iv, !.p = el.p, !.signature = el.signature,
                          !.kind = IF decoded.err = "nil" /\ el.panic
                                   THEN "panic" ELSE "return",
                          !.err = IF decoded.err # "nil" THEN decoded.err
                                  ELSE IF el.panic THEN SliceOutOfRange
                                  ELSE "nil"]]
    /\ UNCHANGED << dc, ctor, ret, lastEnc, nEnc >>

\* what the call writes into the context at its pc: the iv for the pad, the
\* clear scaled price followed by the iv for the signature
WrittenBy(call) ==
    IF ContextAt(call.pc) = "encryptionKey" THEN call.iv
    ELSE SignatureInput(IF call.op = "Encrypt" THEN call.data ELSE call.x,
                        call.iv)

\* hmac.Reset() of HmacSum
ResetStep(c) ==
    /\ calls[c].pc \in {"padReset", "sigReset"}
    /\ dc' = [dc EXCEPT ![ContextAt(calls[c].pc)] = HashReset(@)]
    /\ calls' = [calls EXCEPT ![c].pc =
                    IF calls[c].pc = "padReset" THEN "padWrite" ELSE "sigWrite"]
    /\ UNCHANGED << ctor, ret, lastEnc, nEnc >>

\* hmac.Write(buf) of HmacSum
WriteStep(c) ==
    /\ calls[c].pc \in {"padWrite", "sigWrite"}
    /\ dc' = [dc EXCEPT ![ContextAt(calls[c].pc)] =
                  HashWrite(@, WrittenBy(calls[c]))]
    /\ calls' = [calls EXCEPT ![c].pc =
                    IF calls[c].pc = "padWrite" THEN "padSum" ELSE "sigSum"]
    /\ UNCHANGED << ctor, ret, lastEnc, nEnc >>

\* hmac.Sum(nil) of the pad's HmacSum, and the xor loop after it
PadStep(c) ==
    /\ calls[c].pc = "padSum"
    /\ \E pad \in { PadOf(HashSum(dc.encryptionKey)) } :
          calls' = [calls EXCEPT ![c].pc = "sigReset",
                                 ![c].x = XorBytes(pad,
                                            IF calls[c].op = "Encrypt"
                                            THEN calls[c].data ELSE calls[c].p)]
    /\ UNCHANGED << dc, ctor, ret, lastEnc, nEnc >>

\* hmac.Sum(nil) of the signature's HmacSum in Encrypt, and the return
EncryptReturn(c) ==
    /\ calls[c].pc = "sigSum" /\ calls[c].op = "Encrypt"
    /\ \E sig \in { SignatureOf(HashSum(dc.integrityKey)) } :
          calls' = [calls EXCEPT ![c].pc = "done",
                                 ![c].token =
                                     FinalMessage(calls[c].iv, calls[c].x, sig)]
    /\ UNCHANGED << dc, ctor, ret, lastEnc, nEnc >>

\* hmac.Sum(nil) of the signature's HmacSum in Decrypt, the comparison and
\* the return
DecryptReturn(c) ==
    /\ calls[c].pc = "sigSum" /\ calls[c].op = "Decrypt"
    /\ \E sig \in { SignatureOf(HashSum(dc.integrityKey)) } :
          calls' = [calls EXCEPT
                      ![c].pc = "done",
                      ![c].outPrice =
                          IF SignatureMatches(sig, calls[c].signature)
                          THEN Quotient(calls[c].x, dc.scaleFactor)
                          ELSE errPrice,
                      ![c].err =
                          IF SignatureMatches(sig, calls[c].signature)
                          THEN "nil" ELSE FailedToDecrypt]
    /\ UNCHANGED << dc, ctor, ret, lastEnc, nEnc >>

NextConc ==
    \E c \in Callers :
        \/ \E seed \in Seeds, price \in ConcPrices : StartEncrypt(c, seed, price)
        \/ \E encryptedPrice \in ConcTokens : StartDecrypt(c, encryptedPrice)
        \/ ResetStep(c)
        \/ WriteStep(c)
        \/ PadStep(c)
        \/ EncryptReturn(c)
        \/ DecryptReturn(c)

SpecConc == InitConc /\ [][NextConc]_vars

\* -------------------------------------------------------------- properties

\* the scale factor the pricer was constructed with
ScaleFactor == dc.scaleFactor

\* C1: Decrypt of a token Encrypt issued (as issued, or with its padding
\* stripped) for a price whose scaled value is a uint64 returns no error and
\* the price round(price * scaleFactor) / scaleFactor.
RoundTrip ==
    (ret.op = "Decrypt" /\ ret.in \in ReplayInputs
        /\ InRange(lastEnc.price, ScaleFactor))
    => /\ ret.kind = "return"
       /\ ret.err = "nil"
       /\ ret.outPrice = Quotient(Micros(lastEnc.price, ScaleFactor), ScaleFactor)

\* a price of 255 * 2^56 came back from a token whose padding was stripped
RoundTripWitness ==
    /\ ret.op = "Decrypt" /\ ret.in = StrippedToken
    /\ InRange(lastEnc.price, ScaleFactor) /\ lastEnc.price.exp = 7
    /\ ret.err = "nil" /\ ret.outPrice.num[1] = 255

\* C2: Decrypt of an issued token with one bit of the masked price or of the
\* tag flipped returns the error "Failed to decrypt" and the zero price.
TamperDetected ==
    (ret.op = "Decrypt" /\ ret.in.how = "flip")
    => /\ ret.kind = "return"
       /\ ret.err = FailedToDecrypt
       /\ ret.outPrice = errPrice

\* the top bit of the last tag byte was flipped, and Decrypt refused
TamperDetectedWitness ==
    /\ ret.op = "Decrypt" /\ ret.in.how = "flip"
    /\ ret.in.a = EnvelopeLen - 1 /\ ret.in.b = 7
    /\ ret.err = FailedToDecrypt

\* the bytes the token submitted to the last Decrypt decodes to
Submitted == DecodeString(AddBase64Padding(ret.encryptedPrice))

\* C3: Decrypt of a token that does not decode, or decodes to fewer than 28
\* bytes, returns an error, without a panic and without computing a pad.
MalformedIsAnError ==
    (ret.op = "Decrypt"
        /\ (Submitted.err # "nil" \/ Len(Submitted.bytes) < EnvelopeLen))
    => /\ ret.kind = "return"
       /\ ret.err # "nil"
       /\ ~ret.hashed

\* C4: Encrypt of a negative price, or of one whose scaled value is beyond
\* the uint64 range, returns an error and no token.
OutOfRangeIsAnError ==
    (ret.op = "Encrypt" /\ ~InRange(ret.price, ScaleFactor))
    => /\ ret.err # "nil"
       /\ ret.token = << >>

\* what the call of caller c returns when it runs alone
Alone(c) ==
    IF calls[c].op = "Encrypt"
    THEN With(EncryptData(Fresh, calls[c].seed, calls[c].data, FALSE),
              LAMBDA r : [kind |-> "return", token |-> r.token,
                          outPrice |-> errPrice, err |-> r.err])
    ELSE With(Decrypt(Fresh, calls[c].encryptedPrice, FALSE),
              LAMBDA r : [kind |-> r.kind, token |-> << >>,
                          outPrice |-> r.price, err |-> r.err])

\* what the call of caller c returned
Returned(c) ==
    [kind |-> calls[c].kind, token |-> calls[c].token,
     outPrice |-> calls[c].outPrice, err |-> calls[c].err]

\* C5: every call that ran concurrently with another on the same pricer
\* returned what it returns when run alone.
ConcurrentCallsSelfContained ==
    \A c \in Callers : calls[c].pc = "done" => Returned(c) = Alone(c)

\* C6: an Encrypt with the seed, price and scaled price of the Encrypt before
\* it returns the same token, whatever Decrypt ran in between.
Determinism ==
    (ret.op = "Encrypt" /\ ret.repeats) => ret.token = ret.prevToken

\* an Encrypt repeated after a Decrypt that failed the signature check
DeterminismWitness ==
    /\ ret.op = "Encrypt" /\ ret.repeats /\ ret.afterDecrypt
    /\ ret.token = ret.prevToken
    /\ Len(dc.integrityKey.written) = PriceLen + IVLen

\* C7: construction fails or succeeds with the debug flag set as it does with
\* the flag clear.
DebugIsObservational ==
    ctor.called
    => ctor.err = New([ctor.args EXCEPT !.isDebugMode = FALSE]).err

\* C8: Decrypt ends by returning; with an error it returns the zero price,
\* and without one the token's tag equals the recomputed tag.
DecryptFailuresAreErrors ==
    ret.op = "Decrypt"
    => /\ ret.kind = "return"
       /\ ret.err # "nil" => ret.outPrice = errPrice
       /\ ret.err = "nil" =>
             /\ Len(Submitted.bytes) >= EnvelopeLen
             /\ Slice(Submitted.bytes, IVLen + PriceLen, EnvelopeLen)
                  = SignatureOf(HmacDigest(dc.integrityKey.key,
                                           dc.integrityKey.written))

\* the envelope the last Encrypt returned
Envelope == DecodeString(ret.token)

\* C9: an Encrypt token decodes to 28 bytes: the hash of the seed, the scaled
\* price xor the first 8 bytes of the encryption digest of the iv, and the
\* first 4 bytes of the integrity digest of the scaled price, then the iv.
EnvelopeLayout ==
    ret.op = "Encrypt"
    => /\ Envelope.err = "nil"
       /\ Len(Envelope.bytes) = EnvelopeLen
       /\ Slice(Envelope.bytes, 0, IVLen) = MD5Sum(ret.seed)
       /\ \A i \in 1..PriceLen :
             Envelope.bytes[IVLen + i]
               = ByteXor(HmacDigest(dc.encryptionKey.key, MD5Sum(ret.seed))[i],
                         ret.data[i])
       /\ Slice(Envelope.bytes, IVLen + PriceLen, EnvelopeLen)
            = Slice(HmacDigest(dc.integrityKey.key, ret.data \o MD5Sum(ret.seed)),
                    0, SigLen)
       /\ InRange(ret.price, ScaleFactor)
             => ret.data = Micros(ret.price, ScaleFactor)

\* the token of 2.50 under the scale factor 1,000,000: 0x2625A0 micros
EnvelopeLayoutWitness ==
    /\ ret.op = "Encrypt" /\ Len(ret.token) = 40
    /\ ScaleFactor = DefaultScaleFactor
    /\ ret.data = << 0, 0, 0, 0, 0, 38, 37, 160 >>

\* the token of the first 28 bytes the last Decrypt was given
Prefix == EncodeToString(Slice(Submitted.bytes, 0, EnvelopeLen))

\* C10: Decrypt of an envelope followed by further bytes returns what
\* Decrypt of the envelope alone returns; a valid envelope followed by
\* further bytes decrypts to the price it was issued for.
TrailingBytesIgnored ==
    (ret.op = "Decrypt" /\ ret.in.how = "extend")
    => /\ Len(Submitted.bytes) > EnvelopeLen
       /\ ret.kind = Decrypt(dc, Prefix, FALSE).kind
       /\ ret.err = Decrypt(dc, Prefix, FALSE).err
       /\ ret.outPrice = Decrypt(dc, Prefix, FALSE).price
       /\ (ret.in.b = 0 /\ InRange(lastEnc.price, ScaleFactor))
             => /\ ret.err = "nil"
                /\ ret.outPrice
                     = Quotient(Micros(lastEnc.price, ScaleFactor), ScaleFactor)
       /\ ret.in.b # 0 => ret.err = FailedToDecrypt

\* 2.50 came back from its envelope followed by two more bytes
TrailingBytesIgnoredWitness ==
    /\ ret.op = "Decrypt" /\ ret.in.how = "extend" /\ ret.in.a = 2 /\ ret.in.b = 0
    /\ Len(Submitted.bytes) = EnvelopeLen + 2
    /\ ret.err = "nil" /\ ret.outPrice.num = << 0, 0, 0, 0, 0, 38, 37, 160 >>

=============================================================================
